---- MODULE Spec2Model ----
(***************************************************************************)
(* A model of irs_refund.py: the input resolver (get_user_data, with       *)
(* save_to_env), main, and the form driver (check_irs_status).             *)
(*                                                                         *)
(* Python strings are sequences of one-character strings, so that          *)
(* str.replace, str.upper, str.lower, str.strip and str.isdigit are        *)
(* computed character by character.  None is a value that is no string.    *)
(* The target codes of filing_status_id_map are never inspected per        *)
(* character and are kept as one-token sequences.                          *)
(*                                                                         *)
(* args.verbose only adds progress messages and is left out.  `printed`    *)
(* records the warnings, results and error reports; the re-prompt notices  *)
(* of the input loops are not recorded.                                    *)
(***************************************************************************)
EXTENDS Naturals, Sequences, FiniteSets

VARIABLES
    pc,                    \* position of the single thread of control
    args,                  \* parsed command line: browser, debug, save_env
    environ,               \* os.environ after load_dotenv() (line 22)
    store,                 \* the .env file, the key-value store on disk
    ssn_raw, tax_year, filing_status_name, refund_amount, ssn,
    ssn_raw_input, tax_year_input, status_choice, refund_amount_input,
    data_entered_manually,
    confirm_save,          \* the normalised answer to the confirmation prompt
    prompted,              \* the interactive prompts issued so far
    printed,               \* the messages printed so far
    user_data,             \* the record get_user_data returned, or None
    driver,                \* check_irs_status's `driver`: None or a live browser
    exc,                   \* the exception in flight, or "none"
    raised,                \* the exceptions raised so far: <<call, target, kind>>
    waits,                 \* the elements waited for, in order
    found,                 \* the elements the waits returned, in order
    touched,               \* the elements interacted with, in order
    dumps,                 \* the debug dumps attempted, in order
    quit_calls,            \* number of driver.quit() calls
    saved_record           \* the record returned by an earlier invocation
                           \* that wrote all four keys of the store, if any

vars == <<pc, args, environ, store, ssn_raw, tax_year, filing_status_name,
          refund_amount, ssn, ssn_raw_input, tax_year_input, status_choice,
          refund_amount_input, data_entered_manually, confirm_save, prompted,
          printed, user_data, driver, exc, raised, waits, found, touched, dumps,
          quit_calls, saved_record>>

resolver_locals == <<ssn_raw, tax_year, filing_status_name, refund_amount, ssn,
                     ssn_raw_input, tax_year_input, status_choice,
                     refund_amount_input, data_entered_manually, confirm_save>>

driver_vars == <<driver, exc, raised, waits, found, touched, dumps, quit_calls>>

----------------------------------------------------------------------------
(* Strings *)

None == <<"None">>

\* Longest identifier string enumerated.
MaxSsnLen == 2

RECURSIVE Strings(_, _)
Strings(chars, n) ==
    IF n = 0 THEN {<<>>}
    ELSE LET shorter == Strings(chars, n - 1)
         IN  shorter \cup {Append(s, c) : s \in {t \in shorter : Len(t) = n - 1}, c \in chars}

\* bool(x) of a value that is None or a string
Truthy(x) == x # None /\ x # <<>>

Digits == {"0", "1", "2", "3", "4", "5", "6", "7", "8", "9"}

\* str.isdigit(): non-empty and every character a digit
isdigit(s) == s # <<>> /\ \A i \in 1..Len(s) : s[i] \in Digits

\* ssn.replace("-", "")
StripHyphens(s) == SelectSeq(s, LAMBDA c : c # "-")

LowerCase == <<"e", "f", "g", "h", "i", "j", "l", "m", "n", "o", "q", "s", "w", "x", "y">>
UpperCase == <<"E", "F", "G", "H", "I", "J", "L", "M", "N", "O", "Q", "S", "W", "X", "Y">>

upper_char(c) ==
    IF \E i \in 1..Len(LowerCase) : LowerCase[i] = c
    THEN UpperCase[CHOOSE i \in 1..Len(LowerCase) : LowerCase[i] = c]
    ELSE c

lower_char(c) ==
    IF \E i \in 1..Len(UpperCase) : UpperCase[i] = c
    THEN LowerCase[CHOOSE i \in 1..Len(UpperCase) : UpperCase[i] = c]
    ELSE c

\* str.upper() and str.lower()
upper(s) == [i \in 1..Len(s) |-> upper_char(s[i])]
lower(s) == [i \in 1..Len(s) |-> lower_char(s[i])]

\* str.strip(): leading and trailing blanks removed
RECURSIVE strip(_)
strip(s) ==
    IF s = <<>> THEN s
    ELSE IF Head(s) = " " THEN strip(Tail(s))
    ELSE IF s[Len(s)] = " " THEN strip(SubSeq(s, 1, Len(s) - 1))
    ELSE s

----------------------------------------------------------------------------
(* The values of the resolver *)

SINGLE == <<"S", "I", "N", "G", "L", "E">>
MFJ == <<"M", "F", "J">>
MFS == <<"M", "F", "S">>
HOH == <<"H", "O", "H">>
QW == <<"Q", "W">>

FilingStatusCodes == {SINGLE, MFJ, MFS, HOH, QW}

Y2021 == <<"2", "0", "2", "1">>
Y2022 == <<"2", "0", "2", "2">>
Y2023 == <<"2", "0", "2", "3">>
Y2024 == <<"2", "0", "2", "4">>
Y2019 == <<"2", "0", "1", "9">>

\* line 58
SupportedYears == {Y2024, Y2023, Y2022, Y2021}

\* lines 62-64
filing_status_options ==
    [c \in {<<"1">>, <<"2">>, <<"3">>, <<"4">>, <<"5">>} |->
        CASE c = <<"1">> -> SINGLE
          [] c = <<"2">> -> MFJ
          [] c = <<"3">> -> MFS
          [] c = <<"4">> -> HOH
          [] c = <<"5">> -> QW]

\* (mutant) two filing statuses share a target code
filing_status_id_map_Shared ==
    [n \in FilingStatusCodes |->
        CASE n = SINGLE -> <<"SINGLE">>
          [] n = MFJ -> <<"MARRIED_FILING_JOINT">>
          [] n = MFS -> <<"MARRIED_FILING_JOINT">>
          [] n = HOH -> <<"HEAD_OF_HOUSEHOLD">>
          [] n = QW -> <<"QUALIFYING_SURVIVING_SPOUSE">>]

\* lines 116-122
filing_status_id_map ==
    [n \in FilingStatusCodes |->
        CASE n = SINGLE -> <<"SINGLE">>
          [] n = MFJ -> <<"MARRIED_FILING_JOINT">>
          [] n = MFS -> <<"MARRIED_FILING_SEPARATE">>
          [] n = HOH -> <<"HEAD_OF_HOUSEHOLD">>
          [] n = QW -> <<"QUALIFYING_SURVIVING_SPOUSE">>]

\* dict.get(key): None when the key is absent
MapGet(map, key) == IF key \in DOMAIN map THEN map[key] ELSE None

\* line 123
filing_status_actual_id(name) == MapGet(filing_status_id_map, upper(name))

\* (mutant) the identifier is passed on as stored
processed_ssn_Unstripped(s) == IF Truthy(s) THEN s ELSE <<>>

\* line 112
processed_ssn(s) == IF Truthy(s) THEN StripHyphens(s) ELSE <<>>

StoreKeys == {"SSN", "TAX_YEAR", "FILING_STATUS", "REFUND_AMOUNT"}

\* the order in which save_to_env writes the keys (lines 33-36)
SaveOrder == <<"SSN", "TAX_YEAR", "FILING_STATUS", "REFUND_AMOUNT">>

(* What the user may type and what the store may hold. *)
SsnChars == {"1", "-", "x"}
SsnStrings == Strings(SsnChars, MaxSsnLen)
YearStrings == SupportedYears \cup {Y2019, <<>>}
ChoiceStrings == (DOMAIN filing_status_options) \cup {<<"6">>, <<>>}
AmountStrings == {<<"1", "2", "3", "4">>, <<"1", "2", "x">>, <<>>}
StatusStrings == FilingStatusCodes \cup {<<"m", "f", "j">>, <<"X", "X">>}
ConfirmStrings == {<<"y", "e", "s">>, <<" ", "Y", "e", "s", " ">>, <<"y">>, <<"n", "o">>, <<>>}

StoreType ==
    [SSN : {None} \cup SsnStrings,
     TAX_YEAR : {None, Y2021, Y2024, Y2019},
     FILING_STATUS : {None} \cup StatusStrings,
     REFUND_AMOUNT : {None, <<"1", "2", "3", "4">>, <<"1", "2", "x">>}]

\* line 51: all([ssn_raw, tax_year, filing_status_name, refund_amount])
AllPresent(s) == \A k \in StoreKeys : Truthy(s[k])

\* Stores with a value missing: the present values come from a smaller set,
\* the code reading none of them on that path.
PartialStores ==
    {s \in [SSN : {None, <<>>, <<"1", "-">>},
            TAX_YEAR : {None, Y2019},
            FILING_STATUS : {None, <<"X", "X">>},
            REFUND_AMOUNT : {None, <<"1", "2", "x">>}] : ~AllPresent(s)}

FullStores == {s \in StoreType : AllPresent(s)}

Browsers == {"firefox", "chrome", "edge"}


NoUserData ==
    [ssn |-> None, tax_year |-> None, filing_status_id |-> None,
     filing_status_name |-> None, amount |-> None]

\* lines 129-135
MakeRecord(s, year, name, amount) ==
    [ssn |-> processed_ssn(s), tax_year |-> year,
     filing_status_id |-> filing_status_actual_id(name),
     filing_status_name |-> name, amount |-> amount]

----------------------------------------------------------------------------
(* get_user_data *)

\* lines 45-53 and 108-109: read the values loaded from the store, decide
\* between them and the prompts
ReadStore ==
    /\ pc = "get_user_data"
    /\ ssn_raw' = environ.SSN
    /\ tax_year' = environ.TAX_YEAR
    /\ filing_status_name' = environ.FILING_STATUS
    /\ refund_amount' = environ.REFUND_AMOUNT
    /\ IF AllPresent(environ)
       THEN /\ data_entered_manually' = FALSE
            /\ ssn' = environ.SSN
            /\ printed' = printed
            /\ pc' = "process"
       ELSE /\ data_entered_manually' = TRUE
            /\ ssn' = ssn
            /\ printed' = printed \cup {"enter_manually"}
            /\ pc' = "prompt_ssn"
    /\ UNCHANGED <<args, saved_record, environ, store, ssn_raw_input, tax_year_input, status_choice,
                   refund_amount_input, confirm_save, prompted, user_data,
                   driver_vars>>

\* line 55: getpass.getpass
PromptSsn ==
    /\ pc = "prompt_ssn"
    /\ \E typed \in SsnStrings : ssn_raw_input' = typed
    /\ prompted' = prompted \cup {"ssn"}
    /\ pc' = "prompt_tax_year"
    /\ UNCHANGED <<args, saved_record, environ, store, ssn_raw, tax_year, filing_status_name,
                   refund_amount, ssn, tax_year_input, status_choice,
                   refund_amount_input, data_entered_manually, confirm_save,
                   printed, user_data, driver_vars>>

\* lines 56-60: one pass of the tax-year loop
PromptTaxYear ==
    /\ pc = "prompt_tax_year"
    /\ \E typed \in YearStrings :
          /\ tax_year_input' = typed
          /\ IF typed \in SupportedYears
             THEN pc' = "prompt_filing_status"
             ELSE pc' = pc
    /\ prompted' = prompted \cup {"tax_year"}
    /\ UNCHANGED <<args, saved_record, environ, store, ssn_raw, tax_year, filing_status_name,
                   refund_amount, ssn, ssn_raw_input, status_choice,
                   refund_amount_input, data_entered_manually, confirm_save,
                   printed, user_data, driver_vars>>

\* lines 72-77: one pass of the filing-status loop
PromptFilingStatus ==
    /\ pc = "prompt_filing_status"
    /\ \E typed \in ChoiceStrings :
          /\ status_choice' = typed
          /\ IF typed \in DOMAIN filing_status_options
             THEN pc' = "prompt_amount"
             ELSE pc' = pc
    /\ prompted' = prompted \cup {"filing_status"}
    /\ UNCHANGED <<args, saved_record, environ, store, ssn_raw, tax_year, filing_status_name,
                   refund_amount, ssn, ssn_raw_input, tax_year_input,
                   refund_amount_input, data_entered_manually, confirm_save,
                   printed, user_data, driver_vars>>

\* lines 79-83: one pass of the amount loop
PromptAmount ==
    /\ pc = "prompt_amount"
    /\ \E typed \in AmountStrings :
          /\ refund_amount_input' = typed
          /\ IF isdigit(typed)
             THEN pc' = "update"
             ELSE pc' = pc
    /\ prompted' = prompted \cup {"amount"}
    /\ UNCHANGED <<args, saved_record, environ, store, ssn_raw, tax_year, filing_status_name,
                   refund_amount, ssn, ssn_raw_input, tax_year_input,
                   status_choice, data_entered_manually, confirm_save, printed,
                   user_data, driver_vars>>

\* (mutant) saving is offered without the --save-env flag
WarnsBeforeConfirm_IgnoresFlag == data_entered_manually

\* lines 92-95: the plaintext warning is printed when saving is on offer
WarnsBeforeConfirm == args.save_env /\ data_entered_manually

\* (mutant) a value the store holds is kept, the typed one dropped
Entered_KeepsStored(stored, typed) == IF Truthy(stored) THEN stored ELSE typed

\* lines 86-89: the typed value replaces whatever the store held
Entered(stored, typed) == typed

\* lines 85-95: take over the typed values, then warn if saving is on offer
UpdateVariables ==
    /\ pc = "update"
    /\ ssn' = Entered(ssn_raw, ssn_raw_input)
    /\ tax_year' = Entered(tax_year, tax_year_input)
    /\ filing_status_name' = Entered(filing_status_name, filing_status_options[status_choice])
    /\ refund_amount' = Entered(refund_amount, refund_amount_input)
    /\ IF WarnsBeforeConfirm
       THEN pc' = "confirm_save" /\ printed' = printed \cup {"plaintext_warning"}
       ELSE pc' = "process" /\ printed' = printed
    /\ UNCHANGED <<args, saved_record, environ, store, ssn_raw, ssn_raw_input, tax_year_input,
                   status_choice, refund_amount_input, data_entered_manually,
                   confirm_save, prompted, user_data, driver_vars>>

\* lines 99-104
data_to_save ==
    [SSN |-> ssn, TAX_YEAR |-> tax_year,
     FILING_STATUS |-> filing_status_name, REFUND_AMOUNT |-> refund_amount]

\* lines 24-41: set_key after set_key; an exception ends the writing, so the
\* first n keys of SaveOrder are the ones written
save_to_env(data, n) ==
    [k \in StoreKeys |->
        IF \E i \in 1..n : SaveOrder[i] = k THEN data[k] ELSE store[k]]

\* lines 97-98: input(...).strip().lower() == 'yes'
Confirmed(answer) == lower(strip(answer)) = <<"y", "e", "s">>

\* lines 97-107: ask for confirmation; save on "yes"
ConfirmSave ==
    /\ pc = "confirm_save"
    /\ prompted' = prompted \cup {"confirm"}
    /\ \E answer \in ConfirmStrings :
          /\ confirm_save' = lower(strip(answer))
          /\ IF Confirmed(answer)
             THEN \E n \in 0..Len(SaveOrder) :
                     /\ store' = save_to_env(data_to_save, n)
                     /\ printed' = printed \cup
                           {IF n = Len(SaveOrder) THEN "saved" ELSE "save_error"}
             ELSE /\ store' = store
                  /\ printed' = printed \cup {"not_saved"}
    /\ pc' = "process"
    /\ UNCHANGED <<args, saved_record, environ, ssn_raw, tax_year, filing_status_name,
                   refund_amount, ssn, ssn_raw_input, tax_year_input,
                   status_choice, refund_amount_input, data_entered_manually,
                   user_data, driver_vars>>

\* lines 111-135: normalise the identifier, map the filing status, return
\* the record or exit()
ProcessData ==
    /\ pc = "process"
    /\ IF Truthy(filing_status_actual_id(filing_status_name))
       THEN /\ user_data' = MakeRecord(ssn, tax_year, filing_status_name, refund_amount)
            /\ printed' = printed
            /\ pc' = "main"
       ELSE /\ user_data' = user_data
            /\ printed' = printed \cup {"invalid_filing_status"}
            /\ pc' = "exited"
    /\ UNCHANGED <<args, saved_record, environ, store, resolver_locals, prompted, driver_vars>>

----------------------------------------------------------------------------
(* main *)

\* lines 413-417: a returned record is a non-empty dict, so the driver is
\* invoked with it
MainInvoke ==
    /\ pc = "main"
    /\ user_data # NoUserData
    /\ printed' = printed \cup {"preparing"}
    /\ pc' = "check_irs_status"
    /\ UNCHANGED <<args, saved_record, environ, store, resolver_locals, prompted, user_data, driver_vars>>

----------------------------------------------------------------------------
\* the state at the start of main (line 407), the store as loaded at line 22
Init ==
    /\ pc = "get_user_data"
    /\ args \in [browser : {"chrome"}, debug : {FALSE}, save_env : BOOLEAN]
    /\ store \in FullStores \cup PartialStores
    /\ environ = store
    /\ ssn_raw = None /\ tax_year = None
    /\ filing_status_name = None /\ refund_amount = None /\ ssn = None
    /\ ssn_raw_input = None /\ tax_year_input = None
    /\ status_choice = None /\ refund_amount_input = None
    /\ data_entered_manually = FALSE
    /\ confirm_save = None
    /\ prompted = {}
    /\ printed = {}
    /\ user_data = NoUserData
    /\ driver = None
    /\ exc = "none" /\ raised = <<>>
    /\ waits = <<>> /\ found = <<>> /\ touched = <<>> /\ dumps = <<>>
    /\ quit_calls = 0
    /\ saved_record = NoUserData

Next ==
    \/ ReadStore
    \/ PromptSsn
    \/ PromptTaxYear
    \/ PromptFilingStatus
    \/ PromptAmount
    \/ UpdateVariables
    \/ ConfirmSave
    \/ ProcessData
    \/ MainInvoke

Spec == Init /\ [][Next]_vars

----------------------------------------------------------------------------
(* check_irs_status *)

WebDriver == <<"WebDriver">>

\* lines 234, 244, 254, 262, 271: the form elements in the order of the code
FormElements ==
    <<"ssnInputControl", "tax_year_label", "filing_status_label",
      "refundAmountInput", "anchor-ui-0">>

\* line 285 and line 294
PrimaryIndicator == "current-step"
AlertIndicator == "section-alert__content"

(* What a call into the browser may raise.  "Exception" stands for every   *)
(* exception that is neither a TimeoutException nor a                      *)
(* NoSuchElementException.  WebDriverWait.until swallows                   *)
(* NoSuchElementException while it polls, so a wait raises the other two.  *)
Exceptions == {"TimeoutException", "NoSuchElementException", "Exception"}
WaitExceptions == {"TimeoutException", "Exception"}

\* `if driver and args.debug` (lines 304, 319, 333, 347)
DumpsOnFailure == driver # None /\ args.debug

\* lines 305-315, 320-330, 334-344, 348-358: the failure screenshot and page
\* dump, attempted when a browser exists and debug is on; its own failure is
\* caught and reported
SaveDebugInfo(message) ==
    IF DumpsOnFailure
    THEN /\ dumps' = Append(dumps, "failure")
         /\ \E saved \in BOOLEAN :
               printed' = printed \cup
                  {message, IF saved THEN "debug_saved" ELSE "debug_failed"}
    ELSE /\ dumps' = dumps
         /\ printed' = printed \cup {message}

\* an exception of kind e, raised by `call` on `target`, is in flight
Raise(call, target, e) == exc' = e /\ raised' = Append(raised, <<call, target, e>>)

NoRaise == exc' = exc /\ raised' = raised

\* lines 146-204: install the driver binary and construct the WebDriver
LaunchBrowser ==
    /\ pc = "check_irs_status"
    /\ \/ /\ driver' = WebDriver
          /\ NoRaise
          /\ pc' = IF args.browser = "firefox" THEN "navigate" ELSE "cdp"
       \/ \E e \in WaitExceptions :
             /\ driver' = driver
             /\ Raise("launch", args.browser, e)
             /\ pc' = "except"
    /\ UNCHANGED <<args, saved_record, environ, store, resolver_locals, prompted, printed, user_data,
                   waits, found, touched, dumps, quit_calls>>

\* lines 179-192 and 206-219: execute_cdp_cmd, Chrome and Edge only
AddStealthScript ==
    /\ pc = "cdp"
    /\ \/ pc' = "navigate" /\ NoRaise
       \/ \E e \in WaitExceptions : pc' = "except" /\ Raise("execute_cdp_cmd", args.browser, e)
    /\ UNCHANGED <<args, saved_record, environ, store, resolver_locals, prompted, printed, user_data,
                   driver, waits, found, touched, dumps, quit_calls>>

\* lines 226-227: driver.get
Navigate ==
    /\ pc = "navigate"
    /\ \/ pc' = "wait" /\ NoRaise
       \/ \E e \in WaitExceptions : pc' = "except" /\ Raise("get", args.browser, e)
    /\ UNCHANGED <<args, saved_record, environ, store, resolver_locals, prompted, printed, user_data,
                   driver, waits, found, touched, dumps, quit_calls>>

\* (mutant) a timed-out wait is skipped and the next element is tried
AfterFailedWait_SkipsTimeout(e) == IF e = "TimeoutException" THEN "wait" ELSE "except"

\* where a wait for a form element goes when it raises e: the handlers of
\* the outer try (lines 317-358)
AfterFailedWait(e) == "except"

\* lines 234, 244, 254, 262, 271: wait.until for the next form element
WaitForElement ==
    /\ pc = "wait"
    /\ Len(waits) < Len(FormElements)
    /\ LET element == FormElements[Len(waits) + 1]
       IN  /\ waits' = Append(waits, element)
           /\ \/ /\ found' = Append(found, element)
                 /\ pc' = "interact"
                 /\ NoRaise
              \/ \E e \in WaitExceptions :
                    /\ found' = found
                    /\ pc' = AfterFailedWait(e)
                    /\ Raise("until", element, e)
    /\ UNCHANGED <<args, saved_record, environ, store, resolver_locals, prompted, printed, user_data,
                   driver, touched, dumps, quit_calls>>

\* lines 235, 245, 255, 263, 274: send_keys or click on the element found;
\* after the submit click the result is awaited
InteractWithElement ==
    /\ pc = "interact"
    /\ touched' = Append(touched, found[Len(found)])
    /\ \/ /\ NoRaise
          /\ pc' = IF Len(found) = Len(FormElements) THEN "wait_primary" ELSE "wait"
       \/ \E e \in Exceptions : pc' = "except" /\ Raise("interact", found[Len(found)], e)
    /\ UNCHANGED <<args, saved_record, environ, store, resolver_locals, prompted, printed, user_data,
                   driver, waits, found, dumps, quit_calls>>

\* the handler of the inner try (lines 283-315) that takes an exception
\* raised in its body
InnerHandler(e) == IF e = "TimeoutException" THEN "wait_alert" ELSE "extraction_error"

\* line 286: wait for the primary result indicator
WaitPrimary ==
    /\ pc = "wait_primary"
    /\ waits' = Append(waits, PrimaryIndicator)
    /\ \/ /\ found' = Append(found, PrimaryIndicator)
          /\ pc' = "extract_primary"
          /\ NoRaise
       \/ \E e \in WaitExceptions :
             /\ found' = found
             /\ pc' = InnerHandler(e)
             /\ Raise("until", PrimaryIndicator, e)
    /\ UNCHANGED <<args, saved_record, environ, store, resolver_locals, prompted, printed, user_data,
                   driver, touched, dumps, quit_calls>>

\* lines 287-290: find the enclosing list item, read and print its text
ExtractPrimary ==
    /\ pc = "extract_primary"
    /\ \/ /\ printed' = printed \cup {"status_text"}
          /\ pc' = "finally"
          /\ NoRaise
       \/ \E e \in Exceptions :
             /\ printed' = printed
             /\ pc' = InnerHandler(e)
             /\ Raise("extract", PrimaryIndicator, e)
    /\ UNCHANGED <<args, saved_record, environ, store, resolver_locals, prompted, user_data, driver,
                   waits, found, touched, dumps, quit_calls>>

\* (mutant) the nested TimeoutException handler of line 299 is missing
AfterFailedAlert_NoNestedHandler(e) == "except"

\* lines 292-301: an exception raised inside `except TimeoutException:` has
\* its own TimeoutException handler (line 299); any other exception leaves
\* the inner try statement for the handlers of the outer one
AfterFailedAlert(e) == IF e = "TimeoutException" THEN "no_result" ELSE "except"

\* lines 291-295: the TimeoutException is caught; wait for the alert indicator
WaitAlert ==
    /\ pc = "wait_alert"
    /\ waits' = Append(waits, AlertIndicator)
    /\ \/ /\ found' = Append(found, AlertIndicator)
          /\ pc' = "extract_alert"
          /\ exc' = "none"
          /\ raised' = raised
       \/ \E e \in WaitExceptions :
             /\ found' = found
             /\ pc' = AfterFailedAlert(e)
             /\ Raise("until", AlertIndicator, e)
    /\ UNCHANGED <<args, saved_record, environ, store, resolver_locals, prompted, printed, user_data,
                   driver, touched, dumps, quit_calls>>

\* lines 296-298: read and print the alert's text
ExtractAlert ==
    /\ pc = "extract_alert"
    /\ \/ /\ printed' = printed \cup {"alert_text"}
          /\ pc' = "finally"
          /\ NoRaise
       \/ \E e \in Exceptions :
             /\ printed' = printed
             /\ pc' = AfterFailedAlert(e)
             /\ Raise("extract", AlertIndicator, e)
    /\ UNCHANGED <<args, saved_record, environ, store, resolver_locals, prompted, user_data, driver,
                   waits, found, touched, dumps, quit_calls>>

\* lines 299-301
ReportNoResult ==
    /\ pc = "no_result"
    /\ printed' = printed \cup {"no_result"}
    /\ exc' = "none"
    /\ pc' = "finally"
    /\ UNCHANGED <<args, saved_record, environ, store, resolver_locals, prompted, user_data, driver,
                   raised, waits, found, touched, dumps, quit_calls>>

\* lines 302-315
ExtractionError ==
    /\ pc = "extraction_error"
    /\ SaveDebugInfo("extraction_error")
    /\ exc' = "none"
    /\ pc' = "finally"
    /\ UNCHANGED <<args, saved_record, environ, store, resolver_locals, prompted, user_data, driver,
                   raised, waits, found, touched, quit_calls>>

\* lines 317-330
ExceptTimeout ==
    /\ pc = "except"
    /\ exc = "TimeoutException"
    /\ SaveDebugInfo("timeout_occurred")
    /\ exc' = "none"
    /\ pc' = "finally"
    /\ UNCHANGED <<args, saved_record, environ, store, resolver_locals, prompted, user_data, driver,
                   raised, waits, found, touched, quit_calls>>

\* lines 331-344
ExceptNoSuchElement ==
    /\ pc = "except"
    /\ exc = "NoSuchElementException"
    /\ SaveDebugInfo("element_not_found")
    /\ exc' = "none"
    /\ pc' = "finally"
    /\ UNCHANGED <<args, saved_record, environ, store, resolver_locals, prompted, user_data, driver,
                   raised, waits, found, touched, quit_calls>>

\* lines 345-358
ExceptException ==
    /\ pc = "except"
    /\ exc = "Exception"
    /\ SaveDebugInfo("unexpected_error")
    /\ exc' = "none"
    /\ pc' = "finally"
    /\ UNCHANGED <<args, saved_record, environ, store, resolver_locals, prompted, user_data, driver,
                   raised, waits, found, touched, quit_calls>>

\* (mutant) the browser is quit only when nothing was raised
QuitsDriver_OnSuccessOnly == driver # None /\ raised = <<>>

\* line 360: driver.quit() is called when a driver exists
QuitsDriver == driver # None

\* lines 359-375: the final dump (debug only, its failure caught), then
\* driver.quit(), which no handler encloses: if it raises, the exception
\* leaves check_irs_status and main
Finally ==
    /\ pc = "finally"
    /\ IF QuitsDriver
       THEN /\ IF args.debug
               THEN /\ dumps' = Append(dumps, "final")
                    /\ \E saved \in BOOLEAN :
                          printed' = printed \cup
                             {IF saved THEN "final_debug_saved" ELSE "final_debug_failed"}
               ELSE dumps' = dumps /\ printed' = printed
            /\ quit_calls' = quit_calls + 1
            /\ \/ pc' = "done" /\ NoRaise
               \/ pc' = "crashed" /\ Raise("quit", args.browser, "Exception")
       ELSE /\ dumps' = dumps
            /\ printed' = printed
            /\ quit_calls' = quit_calls
            /\ NoRaise
            /\ pc' = "done"
    /\ UNCHANGED <<args, saved_record, environ, store, resolver_locals, prompted, user_data, driver,
                   waits, found, touched>>

\* Stores the driver runs are started from.
DriverStores ==
    {s \in FullStores :
        /\ s.SSN \in {<<"1", "-">>, <<"1", "1">>}
        /\ s.TAX_YEAR = Y2024
        /\ s.FILING_STATUS \in {MFJ, QW}
        /\ s.REFUND_AMOUNT = <<"1", "2", "3", "4">>}

\* the state in which main calls check_irs_status (line 417), the record
\* resolved from a complete store
InitDriver ==
    /\ pc = "check_irs_status"
    /\ args \in [browser : Browsers, debug : BOOLEAN, save_env : BOOLEAN]
    /\ store \in DriverStores
    /\ environ = store
    /\ ssn_raw = store.SSN /\ tax_year = store.TAX_YEAR
    /\ filing_status_name = store.FILING_STATUS
    /\ refund_amount = store.REFUND_AMOUNT /\ ssn = store.SSN
    /\ ssn_raw_input = None /\ tax_year_input = None
    /\ status_choice = None /\ refund_amount_input = None
    /\ data_entered_manually = FALSE
    /\ confirm_save = None
    /\ prompted = {}
    /\ printed = {"preparing"}
    /\ user_data = MakeRecord(ssn, tax_year, filing_status_name, refund_amount)
    /\ driver = None
    /\ exc = "none" /\ raised = <<>>
    /\ waits = <<>> /\ found = <<>> /\ touched = <<>> /\ dumps = <<>>
    /\ quit_calls = 0
    /\ saved_record = NoUserData

NextDriver ==
    \/ LaunchBrowser
    \/ AddStealthScript
    \/ Navigate
    \/ WaitForElement
    \/ InteractWithElement
    \/ WaitPrimary
    \/ ExtractPrimary
    \/ WaitAlert
    \/ ExtractAlert
    \/ ReportNoResult
    \/ ExtractionError
    \/ ExceptTimeout
    \/ ExceptNoSuchElement
    \/ ExceptException
    \/ Finally

SpecDriver == InitDriver /\ [][NextDriver]_vars

----------------------------------------------------------------------------
(* Properties of check_irs_status, checked under SpecDriver *)

\* the run of main is over: it returned, or an exception left it
RunEnded == pc \in {"done", "crashed"}

Raised(call, target, e) == \E i \in 1..Len(raised) : raised[i] = <<call, target, e>>

RaisedIn(call, target) == \E e \in Exceptions : Raised(call, target, e)

InSeq(x, s) == \E i \in 1..Len(s) : s[i] = x

IsPrefix(s, t) == Len(s) <= Len(t) /\ s = SubSeq(t, 1, Len(s))

ResultMessages == {"status_text", "alert_text", "no_result", "extraction_error"}

\* C1: when a run has ended and a browser had been launched, driver.quit()
\* was called on it (exactly once), whatever was raised after the launch;
\* and quit is never called without a browser.
C1_BrowserReleased ==
    /\ RunEnded /\ driver # None => quit_calls = 1
    /\ driver = None => quit_calls = 0
    /\ quit_calls <= 1

\* a run in which the countermeasure setup failed after the launch and the
\* browser was quit
C1_Witness ==
    /\ pc = "done"
    /\ quit_calls = 1
    /\ RaisedIn("execute_cdp_cmd", args.browser)

ErrorMessages ==
    {"timeout_occurred", "element_not_found", "unexpected_error",
     "extraction_error", "no_result"}

\* C3: no exception leaves check_irs_status, and a run in which something
\* was raised returns to main with a message reported.
C3_NoUnhandledError ==
    /\ pc # "crashed"
    /\ pc = "done" /\ raised # <<>> => printed \cap ErrorMessages # {}

\* C4: the waits go through the form elements in the order of the code,
\* each at most once, and so do the interactions; once the wait for a form
\* element has timed out, that wait stays the last one, the elements before
\* it are the only ones interacted with (so the submit control is not
\* clicked) and no result extraction is reported.
C4_AbortOnTimeout ==
    /\ IsPrefix(waits, FormElements \o <<PrimaryIndicator, AlertIndicator>>)
    /\ IsPrefix(touched, FormElements)
    /\ \A k \in 1..Len(FormElements) :
          Raised("until", FormElements[k], "TimeoutException") =>
             /\ waits = SubSeq(FormElements, 1, k)
             /\ touched = SubSeq(FormElements, 1, k - 1)
             /\ printed \cap ResultMessages = {}
             /\ pc \in {"except", "finally", "done", "crashed"}

\* a run that ended after the wait for the filing-status label timed out
C4_Witness ==
    /\ RunEnded
    /\ Raised("until", "filing_status_label", "TimeoutException")
    /\ touched = <<"ssnInputControl", "tax_year_label">>

----------------------------------------------------------------------------
(* Properties of get_user_data and main, checked under Spec *)

\* get_user_data has returned a record
Returned == user_data # NoUserData

\* some, but not all, of the four values are present in the store
SomePresent(s) == ~AllPresent(s) /\ \E k \in StoreKeys : Truthy(s[k])

PromptedFields == {"ssn", "tax_year", "filing_status", "amount"}

Yes == <<"y", "e", "s">>

\* C5 as stated: the five target codes are pairwise distinct, and a stored
\* filing status that is not one of the five codes never yields a record,
\* hence never a call of the form driver.
C5_Original ==
    /\ \A a, b \in FilingStatusCodes :
          filing_status_id_map[a] = filing_status_id_map[b] => a = b
    /\ Truthy(environ.FILING_STATUS) /\ environ.FILING_STATUS \notin FilingStatusCodes
          => ~Returned /\ pc # "check_irs_status"

\* C5 (amended): the five codes (menu choices 1-5) map to pairwise distinct
\* target codes, and a returned record carries the target code of its filing
\* status.  When all four values are present in the store and the stored
\* filing status, upper-cased, is not one of the five codes, get_user_data
\* exits without returning a record and the driver is never invoked; the
\* process exits in no other case.
C5_StatusMapping ==
    /\ \A a, b \in FilingStatusCodes :
          filing_status_id_map[a] = filing_status_id_map[b] => a = b
    /\ Returned =>
          /\ upper(user_data.filing_status_name) \in FilingStatusCodes
          /\ \A n \in FilingStatusCodes :
                filing_status_id_map[n] = user_data.filing_status_id
                   <=> n = upper(user_data.filing_status_name)
    /\ Returned /\ data_entered_manually =>
          /\ status_choice \in {<<"1">>, <<"2">>, <<"3">>, <<"4">>, <<"5">>}
          /\ user_data.filing_status_name = filing_status_options[status_choice]
    /\ AllPresent(environ) /\ upper(environ.FILING_STATUS) \notin FilingStatusCodes
          => /\ ~Returned
             /\ pc \in {"get_user_data", "process", "exited"}
    /\ pc = "exited" =>
          /\ AllPresent(environ)
          /\ upper(environ.FILING_STATUS) \notin FilingStatusCodes
          /\ ~Returned
          /\ "invalid_filing_status" \in printed

\* the process has exited on an unknown stored filing status
C5_Witness ==
    /\ pc = "exited"
    /\ environ.FILING_STATUS = <<"X", "X">>
    /\ ~Returned

\* C6 as stated: with some but not all values in the store, a value that is
\* present is not prompted for and is the one in the returned record; the
\* missing ones are prompted for.
C6_Original ==
    Returned /\ SomePresent(environ) =>
       /\ Truthy(environ.SSN) =>
             "ssn" \notin prompted /\ user_data.ssn = StripHyphens(environ.SSN)
       /\ Truthy(environ.TAX_YEAR) =>
             "tax_year" \notin prompted /\ user_data.tax_year = environ.TAX_YEAR
       /\ Truthy(environ.FILING_STATUS) =>
             /\ "filing_status" \notin prompted
             /\ user_data.filing_status_name = environ.FILING_STATUS
       /\ Truthy(environ.REFUND_AMOUNT) =>
             "amount" \notin prompted /\ user_data.amount = environ.REFUND_AMOUNT

\* C6 (amended): with some but not all values in the store, get_user_data
\* prompts for all four values, also for those the store holds, and the
\* returned record is made of the typed values alone.
C6_PromptsForAll ==
    SomePresent(environ) =>
       /\ pc \notin {"get_user_data", "prompt_ssn"} => "ssn" \in prompted
       /\ pc # "exited"
       /\ Returned =>
             /\ PromptedFields \subseteq prompted
             /\ user_data.ssn = StripHyphens(ssn_raw_input)
             /\ user_data.tax_year = tax_year_input
             /\ user_data.filing_status_name = filing_status_options[status_choice]
             /\ user_data.amount = refund_amount_input

\* the store held a tax year, yet the year was prompted for and the typed
\* one is in the record
C6_Witness ==
    /\ Returned
    /\ SomePresent(environ)
    /\ Truthy(environ.TAX_YEAR)
    /\ "tax_year" \in prompted
    /\ user_data.tax_year # environ.TAX_YEAR

\* C7: with all four values in the store and a known stored filing status,
\* nothing is ever prompted, the process does not exit, the record has the
\* stored tax year and amount as they are, the stored identifier without its
\* hyphens and the target code of the stored status, and main calls the
\* driver with that record.
C7_StoreComplete ==
    AllPresent(environ) /\ environ.FILING_STATUS \in FilingStatusCodes =>
       /\ prompted = {}
       /\ pc # "exited"
       /\ pc \in {"main", "check_irs_status"} =>
             /\ Returned
             /\ user_data.tax_year = environ.TAX_YEAR
             /\ user_data.amount = environ.REFUND_AMOUNT
             /\ user_data.ssn = StripHyphens(environ.SSN)
             /\ ~InSeq("-", user_data.ssn)
             /\ user_data.filing_status_id = filing_status_id_map[environ.FILING_STATUS]
       /\ pc = "main" => ENABLED MainInvoke

\* the driver is called, unprompted, with a record whose identifier was
\* stored with a hyphen
C7_Witness ==
    /\ pc = "check_irs_status"
    /\ AllPresent(environ)
    /\ environ.FILING_STATUS \in FilingStatusCodes
    /\ InSeq("-", environ.SSN)
    /\ prompted = {}
    /\ Returned

\* C8: the store differs from what was loaded only if the values were
\* entered manually, --save-env is set and the answer to the confirmation
\* was yes; the confirmation is asked only after the plaintext warning; with
\* a complete store, without the flag, or after another answer the store is
\* as it was.
C8_StoreWriteGated ==
    /\ store # environ =>
          /\ data_entered_manually
          /\ args.save_env
          /\ "confirm" \in prompted
          /\ confirm_save = Yes
    /\ pc = "confirm_save" \/ "confirm" \in prompted =>
          "plaintext_warning" \in printed
    /\ "confirm" \in prompted => args.save_env /\ data_entered_manually
    /\ AllPresent(environ) \/ ~args.save_env \/ confirm_save \notin {None, Yes}
          => store = environ

\* a run that wrote the store
C8_Witness ==
    /\ pc = "check_irs_status"
    /\ store # environ
    /\ "saved" \in printed

\* C9: the tax year of a returned record is one of the supported years.
C9_TaxYearSupported == Returned => user_data.tax_year \in SupportedYears

\* C10: the identifier of a returned record consists of digits only.
C10_IdentifierDigitsOnly ==
    Returned => \A i \in 1..Len(user_data.ssn) : user_data.ssn[i] \in Digits

----------------------------------------------------------------------------
(* The debug dumps of check_irs_status, checked under SpecDriver *)

\* C11: in debug mode, a run with a browser that has reported a failure (a
\* timeout, a missing element, an extraction error, an unexpected error or
\* the no-result report after both result waits timed out) has attempted
\* the failure dump by the time it reaches teardown.
C11_FailureDumped ==
    /\ args.debug
    /\ driver # None
    /\ pc \in {"finally", "done", "crashed"}
    /\ printed \cap ErrorMessages # {}
    => InSeq("failure", dumps)

----------------------------------------------------------------------------
(* A second invocation of the script on the store the first one saved *)

\* line 22: load_dotenv() at start-up.  The process environment holds none
\* of the four keys beforehand, and the file gives back each value as
\* set_key wrote it; a key the file lacks reads as None.
load_dotenv(file) == [k \in StoreKeys |-> file[k]]

\* The script is started again after a run that saved all four keys (lines
\* 22 and 407-413 of a new process).  The driver run in between changes
\* neither the store nor the record.  A new start from any other store is
\* an initial state of its own.
NextInvocation ==
    /\ pc = "check_irs_status"
    /\ "saved" \in printed
    /\ saved_record = NoUserData
    /\ saved_record' = user_data
    /\ environ' = load_dotenv(store)
    /\ args' \in [browser : {args.browser}, debug : {args.debug}, save_env : BOOLEAN]
    /\ ssn_raw' = None /\ tax_year' = None
    /\ filing_status_name' = None /\ refund_amount' = None /\ ssn' = None
    /\ ssn_raw_input' = None /\ tax_year_input' = None
    /\ status_choice' = None /\ refund_amount_input' = None
    /\ data_entered_manually' = FALSE
    /\ confirm_save' = None
    /\ prompted' = {}
    /\ printed' = {}
    /\ user_data' = NoUserData
    /\ pc' = "get_user_data"
    /\ UNCHANGED <<store, driver_vars>>

\* Stores of the first invocation: none of the four keys, or the amount alone.
RoundTripStores ==
    {s \in PartialStores :
        s.SSN = None /\ s.TAX_YEAR = None /\ s.FILING_STATUS = None}

InitRoundTrip ==
    /\ pc = "get_user_data"
    /\ args \in [browser : {"chrome"}, debug : {FALSE}, save_env : BOOLEAN]
    /\ store \in RoundTripStores
    /\ environ = load_dotenv(store)
    /\ ssn_raw = None /\ tax_year = None
    /\ filing_status_name = None /\ refund_amount = None /\ ssn = None
    /\ ssn_raw_input = None /\ tax_year_input = None
    /\ status_choice = None /\ refund_amount_input = None
    /\ data_entered_manually = FALSE
    /\ confirm_save = None
    /\ prompted = {}
    /\ printed = {}
    /\ user_data = NoUserData
    /\ driver = None
    /\ exc = "none" /\ raised = <<>>
    /\ waits = <<>> /\ found = <<>> /\ touched = <<>> /\ dumps = <<>>
    /\ quit_calls = 0
    /\ saved_record = NoUserData

NextRoundTrip ==
    \/ Next
    \/ NextInvocation

SpecRoundTrip == InitRoundTrip /\ [][NextRoundTrip]_vars

\* an invocation that follows a run which saved all four keys
Reloaded == saved_record # NoUserData

\* C12: an invocation that follows a run which saved all four keys issues no
\* prompt, does not exit, and returns a record with the identifier, tax
\* year, filing-status code and amount of the record the saving run returned.
C12_RoundTrip ==
    Reloaded =>
       /\ prompted = {}
       /\ pc # "exited"
       /\ Returned =>
             /\ user_data.ssn = saved_record.ssn
             /\ user_data.tax_year = saved_record.tax_year
             /\ user_data.filing_status_id = saved_record.filing_status_id
             /\ user_data.amount = saved_record.amount

====
